---- MODULE Spec2Model ----
(***************************************************************************)
(* Model of tools/backfill_health.py: the resumable backfill engine        *)
(* (import_pass), the progress tracker (ProgressTracker), the retrying     *)
(* query client (query_with_retry) and the daemon loop of main().          *)
(*                                                                         *)
(* Dates are day numbers: day 1 is args.start, a larger number is a newer  *)
(* day.  A batch of points is represented by its length.                   *)
(***************************************************************************)
EXTENDS Integers, Sequences, FiniteSets, TLC

(* ---- bounds of the model ---- *)
MaxDays == 3        \* the import range holds 1..MaxDays days
MaxPts  == 1        \* a window yields 0..MaxPts points
MaxTotal == 2       \* points are returned only while the points counted so far stay within MaxTotal
PollInterval == 2   \* args.poll_interval, in seconds

(* ---- program constants ---- *)
NumWindows == 4         \* the four 6-hour windows of a day
Retries == 3            \* query_with_retry(retries=3)
NetFailLimit == 3       \* if consecutive_net_failures >= 3

Days == 1..MaxDays

VARIABLES
  args,                      \* parsed command line: start, end, dry_run, daemon (reset: see MainStart)
  pc,                        \* position of the single thread of control
  interrupted,               \* global _interrupted
  tracker,                   \* ProgressTracker: completed, points_by_day, total_points, dirty
  file,                      \* the progress file on stable storage
  remaining, i,              \* import_pass: list of remaining days, index of the current day (1-based)
  w,                         \* import_pass: index of the current window of the day (1-based)
  day_points, points,        \* import_pass: points of the day so far, batch awaiting its sink write
  total_points, days_imported,
  consecutive_net_failures, phone_lost,
  exc,                       \* an exception is propagating out of import_pass
  save_site,                 \* which save_if_dirty call is writing: "day" (line 685) or "finally" (line 691)
  was_online,                \* main: the daemon's view of the device
  slept,                     \* main: seconds slept in the poll sleep that is running or that the stop flag ended
  \* ---- history variables (observations, no effect on the program) ----
  queried,                   \* days queried in this pass, in order of their first query
  startCompleted,            \* tracker.completed when this pass started
  passIO,                    \* this pass has queried the device, written to the sink or written the file
  dayUnwritten,              \* this attempt at the day obtained a non-empty batch that did not reach the sink
  markedUnwritten,           \* days marked completed by such an attempt
  errDays,                   \* days whose latest attempt raised a day-level error
  errEvents,                 \* days for whose latest attempt write_error sent a backfill_error event
  errWrote,                  \* days not completed whose last failed attempt had written points of a window
  transportRun,              \* window queries that failed after their retries, in a row, no successful window between
  tripleSeen,                \* in this pass three connection attempts in a row failed within one day
  connLog,                   \* backfill_connectivity events: the last one's online value (none yet: FALSE),
                             \* and whether some event repeated the value before it
  scen,                      \* how many probes of ScenProbes the daemon has made, -1 once it left that run
  connEvents,                \* backfill_connectivity events emitted while the probes followed ScenProbes
  telemetry,                 \* the telemetry write of the step just taken: "none", "written" or "failed"
  handler,                   \* the except clause of import_pass that the step just taken ran:
                             \* "none", "network" (line 667) or "general" (line 680)
  sock                       \* the socket of the query or probe of the step just taken, as that
                             \* operation returned: "none" (no socket), "closed" or "unclosed"

dayLocals  == <<w, day_points, points, dayUnwritten>>
counters   == <<total_points, days_imported>>
netVars    == <<consecutive_net_failures, phone_lost, transportRun, tripleSeen>>
errVars    == <<errDays, errEvents, errWrote>>
passGhost  == <<queried, startCompleted, passIO>>
passLocals == <<remaining, i, dayLocals, counters, netVars, errVars, passGhost,
                exc, save_site, markedUnwritten>>

connVars   == <<connLog, scen, connEvents>>

vars == <<args, pc, interrupted, tracker, file, passLocals, was_online, slept, connVars, telemetry, handler, sock>>

(* ---------------------------------------------------------------------- *)
(* Helpers                                                                 *)
(* ---------------------------------------------------------------------- *)

Range(s) == {s[k] : k \in 1..Len(s)}

Min(S) == CHOOSE x \in S : \A y \in S : x <= y

date_range_forward(start_date, end_date) ==
  [k \in 1..(end_date - start_date + 1) |-> start_date + k - 1]

\* date_range_reverse: every date from end_date down to start_date
RECURSIVE date_range_reverse(_, _)
date_range_reverse(start_date, end_date) ==
  IF end_date >= start_date
    THEN <<end_date>> \o date_range_reverse(start_date, end_date - 1)
    ELSE <<>>

sorted_first(S) == IF S = {} THEN <<>> ELSE <<Min(S)>>

\* sorted(self.completed): ascending list of the set
RECURSIVE sorted(_)
sorted(S) == IF S = {} THEN <<>> ELSE <<Min(S)>> \o sorted(S \ {Min(S)})

NoPoints == [d \in Days |-> 0]     \* an empty points_by_day dict (0: key absent)

\* ProgressTracker.__init__
NewTracker == [completed |-> {}, points_by_day |-> NoPoints, total_points |-> 0, dirty |-> FALSE]

NoFile == [kind |-> "absent", completed_days |-> <<>>, total_points |-> 0, points_by_day |-> NoPoints]

\* the document ProgressTracker.save serialises
Document(t) == [kind |-> "full", completed_days |-> sorted(t.completed),
                total_points |-> t.total_points, points_by_day |-> t.points_by_day]

\* the file after open(mode='w') truncated it ("empty") or after part of the text reached it ("partial")
Truncated(kind) == [NoFile EXCEPT !.kind = kind]

\* ProgressTracker.load: a missing file leaves the tracker as it is
load(t, f) ==
  IF f.kind = "absent" THEN t
  ELSE [t EXCEPT !.completed = Range(f.completed_days),
                 !.points_by_day = f.points_by_day,
                 !.total_points = f.total_points]

\* load raises: json.loads of an empty or cut-off text
LoadRaises(f) == f.kind \in {"empty", "partial"}

is_completed_never(t, d) == FALSE

\* ProgressTracker.is_completed
is_completed(t, d) == d \in t.completed

mark_completed_nonempty(t, d, pts) ==
  IF pts > 0
    THEN [t EXCEPT !.completed = @ \cup {d}, !.points_by_day = [@ EXCEPT ![d] = pts],
                   !.total_points = @ + pts, !.dirty = TRUE]
    ELSE t

\* ProgressTracker.mark_completed
mark_completed(t, d, pts) ==
  [t EXCEPT !.completed = @ \cup {d},
            !.points_by_day = IF pts > 0 THEN [@ EXCEPT ![d] = pts] ELSE @,
            !.total_points = IF pts > 0 THEN @ + pts ELSE @,
            !.dirty = TRUE]

\* ProgressTracker.reset: unlinks the file (see MainStart) and clears the completed set
reset(t) == [t EXCEPT !.completed = {}]

\* one connection attempt of query_health_metrics ends in one of these ways:
\* a transport error, an undecodable text (json.loads raises), an error
\* envelope, a document of no recognised shape, or metrics giving n points
Transport == [kind |-> "transport", n |-> 0]
AttemptOutcome ==
  {[kind |-> k, n |-> 0] : k \in {"transport", "undecodable", "error", "unrecognized"}}
  \cup {[kind |-> "metrics", n |-> n] : n \in 0..MaxPts}

\* what the attempts of one window query can be: k transport errors, then o
AttemptSeqs ==
  {[a \in 1..Retries |-> IF a <= k THEN Transport ELSE o] :
     k \in 0..Retries, o \in AttemptOutcome \ {Transport}}

\* query_with_retry: attempts 0..retries-1; only a transport error is retried,
\* the last attempt's transport error is re-raised
retry_once(outs, retries, attempt) ==
  [outcome |-> outs[attempt + 1], attempts |-> attempt + 1, sleeps |-> attempt]

\* the loop "for attempt in range(retries)" from the given attempt on: the
\* outcome, the connection attempts made and the delays slept
RECURSIVE retry_loop(_, _, _)
retry_loop(outs, retries, attempt) ==
  IF attempt >= retries
    THEN [outcome |-> [kind |-> "none", n |-> 0], attempts |-> attempt, sleeps |-> attempt]
  ELSE IF outs[attempt + 1].kind # "transport"
    THEN [outcome |-> outs[attempt + 1], attempts |-> attempt + 1, sleeps |-> attempt]
  ELSE IF attempt < retries - 1
    THEN retry_loop(outs, retries, attempt + 1)
    ELSE [outcome |-> outs[attempt + 1], attempts |-> attempt + 1, sleeps |-> attempt]

\* import_pass calls query_with_retry with the default retries = 3
query_attempt(outs, attempt) == retry_loop(outs, Retries, attempt)

query_with_retry(outs) == query_attempt(outs, 0)

extract_raises_never(outcome) == FALSE

\* extract_metrics, lines 190-191: an error envelope raises RuntimeError
extract_raises(outcome) == outcome.kind = "error"

\* extract_metrics + build_points: number of points of a decoded response
\* (a document of no recognised shape gives an empty list)
build_points(outcome) == IF outcome.kind = "metrics" THEN outcome.n ELSE 0

\* all_days = list(date_range_reverse(args.start, args.end))
all_days == date_range_reverse(args.start, args.end)

\* remaining = [d for d in all_days if not tracker.is_completed(d)]
remaining_days(t) == SelectSeq(all_days, LAMBDA d : ~is_completed(t, d))

day == remaining[i]        \* the loop variable of "for i, day in enumerate(remaining)"

Alive == pc \notin {"done", "stopped", "died", "crashed"}

InPass == pc \in {"day_loop", "window", "write", "mark", "save_day", "finally", "write_text"}

telemetry_write_always(ok) == IF ok THEN "written" ELSE "failed"

telemetry_write_raising(ok) == IF args.dry_run THEN "none" ELSE IF ok THEN "written" ELSE "raised"

\* write_telemetry, write_connectivity, write_error (lines 307-382): nothing in
\* a dry run; else write_points is called and its exception, if any, is
\* logged and swallowed
telemetry_write(ok) == IF args.dry_run THEN "none" ELSE IF ok THEN "written" ELSE "failed"

\* an exception that left a telemetry function in main() or in an except
\* clause of import_pass would end the process
after_telemetry(t, next) == IF t = "raised" THEN "died" ELSE next

came_online_always(was) == TRUE

\* main, line 753: if not was_online
came_online(was) == ~was

NoEvents == [last |-> FALSE, repeat |-> FALSE]

\* write_connectivity, lines 350-363: nothing in a dry run, else one
\* backfill_connectivity event
write_connectivity(log, online) ==
  IF args.dry_run THEN log
  ELSE [last |-> online, repeat |-> log.repeat \/ online = log.last]

\* the probe results of the reachability scenario: false, false, true, true, false
ScenProbes == <<FALSE, FALSE, TRUE, TRUE, FALSE>>

\* the scenario goes on while the probes are those of ScenProbes
advance(k, result) ==
  IF k >= 0 /\ k < Len(ScenProbes) /\ ScenProbes[k + 1] = result THEN k + 1 ELSE -1

\* query_health_metrics, lines 135-153: the socket is made at line 135 and
\* closed by the finally clause at line 153, whatever the outcome of the
\* attempt; query_with_retry makes one such socket per attempt
query_socket(outcome) == "closed"

\* check_phone_reachable, lines 540-549: sock.close() is line 546, after a
\* successful connect; when connect raises, the except clause returns without
\* closing, and the socket is closed at return only where the interpreter
\* finalises the dropped object at once (collected)
probe_socket(connected, collected) ==
  IF connected \/ collected THEN "closed" ELSE "unclosed"

\* a probe with the given result; emits tells whether write_connectivity is called
Probed(result, emits) ==
  /\ connLog' = IF emits THEN write_connectivity(connLog, result) ELSE connLog
  /\ scen' = advance(scen, result)
  /\ connEvents' = IF scen' = -1 THEN 0
                   ELSE IF emits /\ ~args.dry_run THEN connEvents + 1 ELSE connEvents
  /\ \E ok \in BOOLEAN : telemetry' = IF emits THEN telemetry_write(ok) ELSE "none"

(* ---------------------------------------------------------------------- *)
(* Initial state: the process has parsed its arguments; the progress file  *)
(* is absent or holds the document of an earlier run.                      *)
(* ---------------------------------------------------------------------- *)

Init ==
  /\ args \in [start : {1}, end : Days, dry_run : BOOLEAN, daemon : BOOLEAN]
  /\ pc = "main"
  /\ interrupted = FALSE
  /\ tracker = NewTracker
  /\ \E S \in SUBSET (args.start..args.end) :
        file = IF S = {} THEN NoFile ELSE Document([NewTracker EXCEPT !.completed = S])
  /\ remaining = <<>> /\ i = 0 /\ w = 0 /\ day_points = 0 /\ points = 0
  /\ total_points = 0 /\ days_imported = 0
  /\ consecutive_net_failures = 0 /\ phone_lost = FALSE
  /\ exc = FALSE /\ save_site = "none" /\ was_online = FALSE /\ slept = 0
  /\ queried = <<>> /\ startCompleted = {} /\ passIO = FALSE
  /\ dayUnwritten = FALSE /\ markedUnwritten = {}
  /\ errDays = {} /\ errEvents = {} /\ errWrote = {}
  /\ transportRun = 0 /\ tripleSeen = FALSE
  /\ connLog = NoEvents /\ scen = 0 /\ connEvents = 0
  /\ telemetry = "none"
  /\ sock = "none" /\ handler = "none"

\* the process is gone (killed, or an exception reached the top level):
\* its memory is lost, the file stays; the observations end with it
Terminated(how) ==
  /\ pc' = how
  /\ interrupted' = FALSE /\ tracker' = NewTracker
  /\ remaining' = <<>> /\ i' = 0 /\ w' = 0 /\ day_points' = 0 /\ points' = 0
  /\ total_points' = 0 /\ days_imported' = 0
  /\ consecutive_net_failures' = 0 /\ phone_lost' = FALSE
  /\ exc' = FALSE /\ save_site' = "none" /\ was_online' = FALSE /\ slept' = 0
  /\ queried' = <<>> /\ startCompleted' = {} /\ passIO' = FALSE
  /\ dayUnwritten' = FALSE /\ markedUnwritten' = {}
  /\ errDays' = {} /\ errEvents' = {} /\ errWrote' = {}
  /\ transportRun' = 0 /\ tripleSeen' = FALSE
  /\ connLog' = NoEvents /\ scen' = -1 /\ connEvents' = 0
  /\ UNCHANGED args

(* ---------------------------------------------------------------------- *)
(* main(): construction of the tracker                                     *)
(* ---------------------------------------------------------------------- *)

\* main, lines 725-730: tracker = ProgressTracker(...); reset if asked; load.
\* args.reset is read here only (line 726): it is an input of this step.
MainStartWith(args_reset) ==
  /\ pc = "main"
  /\ LET f1 == IF args_reset THEN NoFile ELSE file
         t1 == IF args_reset THEN reset(NewTracker) ELSE NewTracker
     IN /\ file' = f1
        /\ IF LoadRaises(f1)
             THEN Terminated("died")
             ELSE /\ tracker' = load(t1, f1)
                  /\ pc' = IF args.daemon THEN "daemon_loop" ELSE "pass_start"
                  /\ UNCHANGED <<args, interrupted, passLocals, was_online, slept, connVars>>
  /\ telemetry' = "none"
  /\ sock' = "none"
  /\ handler' = "none"

MainStart == \E args_reset \in BOOLEAN : MainStartWith(args_reset)

(* ---------------------------------------------------------------------- *)
(* import_pass                                                             *)
(* ---------------------------------------------------------------------- *)

\* import_pass, lines 560-585: remaining days, early return, locals
PassStart ==
  /\ pc = "pass_start"
  /\ LET rem == remaining_days(tracker) IN
       /\ remaining' = rem
       /\ pc' = IF rem = <<>> THEN "pass_ret" ELSE "day_loop"
       /\ i' = IF rem = <<>> THEN 0 ELSE 1
  /\ w' = 0 /\ day_points' = 0 /\ points' = 0 /\ dayUnwritten' = FALSE
  /\ total_points' = 0 /\ days_imported' = 0
  /\ consecutive_net_failures' = 0 /\ phone_lost' = FALSE
  /\ exc' = FALSE /\ save_site' = "none"
  /\ queried' = <<>> /\ startCompleted' = tracker.completed /\ passIO' = FALSE
  /\ transportRun' = 0 /\ tripleSeen' = FALSE
  /\ UNCHANGED <<args, interrupted, tracker, file, was_online, slept, markedUnwritten, errVars>>
  /\ UNCHANGED connVars
  /\ telemetry' = "none"
  /\ sock' = "none"
  /\ handler' = "none"

check_interrupted_never == FALSE

\* lines 589 and 607: if _interrupted: break
check_interrupted == interrupted

\* lines 588-590: the for loop is exhausted or the stop flag is seen
DaysDone ==
  /\ pc = "day_loop"
  /\ (i > Len(remaining) \/ check_interrupted)
  /\ pc' = "finally"
  /\ UNCHANGED <<args, interrupted, tracker, file, passLocals, was_online, slept>>
  /\ UNCHANGED connVars
  /\ telemetry' = "none"
  /\ sock' = "none"
  /\ handler' = "none"

first_window_after_error(d) == IF d \in errWrote THEN 2 ELSE 1

\* line 606: for ... in windows: every attempt at a day starts at the first window
first_window(d) == 1

\* lines 588-604: the next remaining day starts
DayStart ==
  /\ pc = "day_loop"
  /\ i <= Len(remaining) /\ ~check_interrupted
  /\ day_points' = 0 /\ w' = first_window(day) /\ points' = 0 /\ dayUnwritten' = FALSE
  /\ pc' = "window"
  /\ errDays' = errDays \ {day} /\ errEvents' = errEvents \ {day}
  /\ UNCHANGED errWrote
  /\ UNCHANGED <<args, interrupted, tracker, file, remaining, i, counters, netVars,
                 passGhost, exc, save_site, markedUnwritten, was_online, slept>>
  /\ UNCHANGED connVars
  /\ telemetry' = "none"
  /\ sock' = "none"
  /\ handler' = "none"

write_error_never(events, d) == events

\* write_error, lines 366-382: the days with a backfill_error event
write_error(events, d) == IF args.dry_run THEN events ELSE events \cup {d}

count_attempts(c) == c + Retries

\* line 668: consecutive_net_failures += 1
count_failure(c) == c + 1

\* lines 637-638 and the end of a window's body: the window succeeded with n points
WindowSucceeded(n) ==
  /\ day_points' = day_points + n
  /\ consecutive_net_failures' = 0
  /\ transportRun' = 0
  /\ w' = w + 1 /\ points' = 0
  /\ pc' = "window"
  /\ telemetry' = "none"
  /\ UNCHANGED <<phone_lost, errVars, connVars>>

\* the day fails: it is recorded whether points of its earlier windows are in the sink
wrote_before(S) == IF day_points > 0 /\ ~args.dry_run THEN S \cup {day} ELSE S \ {day}

\* lines 667-679: except (ConnectionRefusedError, socket.timeout, OSError)
NetworkHandler ==
  /\ handler' = "network"
  /\ consecutive_net_failures' = count_failure(consecutive_net_failures)
  /\ errDays' = errDays \cup {day}
  /\ errEvents' = write_error(errEvents, day)
  /\ errWrote' = wrote_before(errWrote)
  /\ \E ok \in BOOLEAN : telemetry' = telemetry_write(ok)
  /\ IF consecutive_net_failures' >= NetFailLimit
       THEN /\ phone_lost' = TRUE /\ pc' = after_telemetry(telemetry', "finally")
            /\ connLog' = write_connectivity(connLog, FALSE)
            /\ scen' = -1 /\ connEvents' = 0
       ELSE /\ phone_lost' = phone_lost /\ pc' = after_telemetry(telemetry', "save_day")
            /\ UNCHANGED connVars
  /\ UNCHANGED <<w, day_points>>

ErrorHandlerResets ==
  /\ handler' = "general"
  /\ errDays' = errDays \cup {day}
  /\ errEvents' = write_error(errEvents, day)
  /\ errWrote' = wrote_before(errWrote)
  /\ \E ok \in BOOLEAN : telemetry' = telemetry_write(ok)
  /\ pc' = after_telemetry(telemetry', "save_day")
  /\ consecutive_net_failures' = 0
  /\ UNCHANGED <<phone_lost, w, day_points, connVars>>

\* lines 680-682: except Exception
ErrorHandler ==
  /\ handler' = "general"
  /\ errDays' = errDays \cup {day}
  /\ errEvents' = write_error(errEvents, day)
  /\ errWrote' = wrote_before(errWrote)
  /\ \E ok \in BOOLEAN : telemetry' = telemetry_write(ok)
  /\ pc' = after_telemetry(telemetry', "save_day")
  /\ UNCHANGED <<consecutive_net_failures, phone_lost, w, day_points, connVars>>

\* lines 606-608: the windows are exhausted or the stop flag is seen
WindowsDone ==
  /\ pc = "window"
  /\ (w > NumWindows \/ check_interrupted)
  /\ pc' = "mark"
  /\ UNCHANGED <<args, interrupted, tracker, file, passLocals, was_online, slept>>
  /\ UNCHANGED connVars
  /\ telemetry' = "none"
  /\ sock' = "none"
  /\ handler' = "none"

\* lines 593-598: the windows of a day, (start h, m, s, end h, m, s)
windows == << <<0, 0, 0, 5, 59, 59>>, <<6, 0, 0, 11, 59, 59>>,
              <<12, 0, 0, 17, 59, 59>>, <<18, 0, 0, 23, 59, 59>> >>

needs_write_any(n) == ~args.dry_run

\* line 626: if points and not args.dry_run
needs_write(n) == n > 0 /\ ~args.dry_run

\* lines 606-626: query with retry, extract_metrics, build_points
QueryWindowWith(outs) ==
  /\ pc = "window"
  /\ w <= NumWindows /\ ~check_interrupted
  /\ LET r == query_with_retry(outs)
           failed == IF r.outcome.kind = "transport" THEN r.attempts ELSE r.attempts - 1
           n == build_points(r.outcome)
       IN /\ n > 0 => tracker.total_points + day_points + n <= MaxTotal
          /\ tripleSeen' = (tripleSeen \/ failed >= 3)
          /\ CASE r.outcome.kind = "transport" ->
                    /\ NetworkHandler
                    /\ transportRun' = transportRun + 1
                    /\ UNCHANGED <<points, dayUnwritten>>
               [] r.outcome.kind = "undecodable" \/ extract_raises(r.outcome) ->
                    /\ ErrorHandler
                    /\ UNCHANGED <<points, dayUnwritten, transportRun>>
               [] OTHER ->
                    /\ handler' = "none"
                    /\ IF needs_write(n)
                      THEN /\ points' = n /\ pc' = "write"
                           /\ telemetry' = "none"
                           /\ UNCHANGED <<w, day_points, consecutive_net_failures, phone_lost,
                                          errVars, transportRun, dayUnwritten, connVars>>
                      ELSE /\ WindowSucceeded(n)
                           /\ dayUnwritten' = (dayUnwritten \/ n > 0)
          /\ sock' = query_socket(r.outcome)
  /\ passIO' = TRUE
  /\ queried' = IF day \in Range(queried) THEN queried ELSE Append(queried, day)
  /\ UNCHANGED <<args, interrupted, tracker, file, remaining, i, counters, startCompleted,
                 exc, save_site, markedUnwritten, was_online, slept>>

\* the attempts of the window's query end in some way
QueryWindow == \E outs \in AttemptSeqs : QueryWindowWith(outs)

\* lines 626-638: write_points of the window's batch succeeds
SinkWrite ==
  /\ pc = "write"
  /\ WindowSucceeded(points)
  /\ passIO' = TRUE
  /\ sock' = "none"
  /\ handler' = "none"
  /\ UNCHANGED <<args, interrupted, tracker, file, remaining, i, counters, queried,
                 startCompleted, dayUnwritten, tripleSeen, exc, save_site,
                 markedUnwritten, was_online, slept>>

\* lines 626-635 and 667-682: write_points raises; an OSError (or a subclass) is
\* caught by the network handler, anything else by the general one
SinkWriteFails ==
  /\ pc = "write"
  /\ \E oserror \in BOOLEAN : IF oserror THEN NetworkHandler ELSE ErrorHandler
  /\ dayUnwritten' = TRUE
  /\ passIO' = TRUE
  /\ sock' = "none"
  /\ UNCHANGED <<args, interrupted, tracker, file, remaining, i, points, counters, queried,
                 startCompleted, transportRun, tripleSeen, exc, save_site,
                 markedUnwritten, was_online, slept>>

\* lines 645-654: mark_completed, the pass counters, write_telemetry
MarkDay ==
  /\ pc = "mark"
  /\ tracker' = mark_completed(tracker, day, day_points)
  /\ days_imported' = days_imported + 1
  /\ total_points' = total_points + day_points
  /\ \E ok \in BOOLEAN : telemetry' = telemetry_write(ok)
  /\ IF telemetry' = "raised"
       THEN errDays' = errDays \cup {day} /\ errEvents' = write_error(errEvents, day)
       ELSE UNCHANGED <<errDays, errEvents>>
  /\ errWrote' = errWrote \ {day}
  /\ pc' = "save_day"
  /\ sock' = "none"
  /\ handler' = "none"
  /\ markedUnwritten' = IF dayUnwritten THEN markedUnwritten \cup {day} ELSE markedUnwritten \ {day}
  /\ UNCHANGED <<args, interrupted, file, remaining, i, dayLocals, netVars,
                 passGhost, exc, save_site, was_online, slept>>
  /\ UNCHANGED connVars

(* ---- ProgressTracker.save, called through save_if_dirty ---- *)

save_needed_always(t) == TRUE

\* save_if_dirty, line 282: if self._dirty
save_needed(t) == t.dirty

\* lines 684-688: save_if_dirty after the day: nothing to save, or the file is
\* opened for writing (which truncates it), or mkdir/open raises.  The day's
\* locals are not read again before they are reassigned.
SaveAfterDay ==
  /\ pc = "save_day"
  /\ IF ~save_needed(tracker)
       THEN /\ i' = i + 1 /\ pc' = "day_loop"
            /\ UNCHANGED <<file, exc, save_site, passIO>>
       ELSE \/ /\ file' = Truncated("empty")
               /\ pc' = "write_text" /\ save_site' = "day"
               /\ passIO' = TRUE
               /\ UNCHANGED <<i, exc>>
            \/ /\ exc' = TRUE /\ pc' = "finally"
               /\ UNCHANGED <<file, i, save_site, passIO>>
  /\ w' = 0 /\ day_points' = 0 /\ points' = 0 /\ dayUnwritten' = FALSE
  /\ UNCHANGED <<args, interrupted, tracker, remaining, counters, netVars, errVars,
                 queried, startCompleted, markedUnwritten, was_online, slept>>
  /\ UNCHANGED connVars
  /\ telemetry' = "none"
  /\ sock' = "none"
  /\ handler' = "none"

\* line 699: the third component of import_pass's result, which main names
\* days_failed (line 732) and reports as "Failed" (lines 737-744)
days_failed == consecutive_net_failures

\* line 699, the return of import_pass: its result stays, its other locals go
PassReturns ==
  /\ pc' = "pass_ret"
  /\ remaining' = <<>> /\ i' = 0 /\ w' = 0 /\ day_points' = 0 /\ points' = 0
  /\ dayUnwritten' = FALSE /\ save_site' = "none"
  /\ queried' = <<>> /\ startCompleted' = {}
  /\ UNCHANGED <<args, interrupted, counters, netVars, errVars, passIO, exc,
                 markedUnwritten, was_online, slept, connVars>>

\* lines 690-699: the finally clause's save_if_dirty, then the return or the
\* exception leaving import_pass and main
Finally ==
  /\ pc = "finally"
  /\ IF ~save_needed(tracker)
       THEN IF exc
              THEN Terminated("died") /\ UNCHANGED file
              ELSE PassReturns /\ UNCHANGED <<tracker, file>>
       ELSE \/ /\ file' = Truncated("empty")
               /\ pc' = "write_text" /\ save_site' = "finally"
               /\ passIO' = TRUE
               /\ UNCHANGED <<args, interrupted, tracker, remaining, i, dayLocals, counters,
                              netVars, errVars, queried, startCompleted, exc,
                              markedUnwritten, was_online, slept, connVars>>
            \/ Terminated("died") /\ UNCHANGED file
  /\ telemetry' = "none"
  /\ sock' = "none"
  /\ handler' = "none"

\* line 261, write_text: part of the text reaches the file
WritePartial ==
  /\ pc = "write_text"
  /\ file.kind = "empty"
  /\ file' = Truncated("partial")
  /\ UNCHANGED <<args, pc, interrupted, tracker, passLocals, was_online, slept>>
  /\ UNCHANGED connVars
  /\ telemetry' = "none"
  /\ sock' = "none"
  /\ handler' = "none"

\* lines 261-263: the whole text is in the file, _dirty = False, save returns
WriteComplete ==
  /\ pc = "write_text"
  /\ file' = Document(tracker)
  /\ IF save_site = "day"
       THEN /\ tracker' = [tracker EXCEPT !.dirty = FALSE]
            /\ i' = i + 1 /\ pc' = "day_loop" /\ save_site' = "none"
            /\ UNCHANGED <<args, interrupted, remaining, dayLocals, counters, netVars, errVars,
                           passGhost, exc, markedUnwritten, was_online, slept, connVars>>
       ELSE IF exc
              THEN Terminated("died")
              ELSE PassReturns /\ tracker' = [tracker EXCEPT !.dirty = FALSE]
  /\ telemetry' = "none"
  /\ sock' = "none"
  /\ handler' = "none"

WriteFailsSwallowed ==
  /\ pc = "write_text"
  /\ IF save_site = "day"
       THEN /\ i' = i + 1 /\ pc' = "day_loop" /\ save_site' = "none"
            /\ UNCHANGED <<args, interrupted, tracker, remaining, dayLocals, counters,
                           netVars, errVars, passGhost, exc, markedUnwritten, was_online, slept,
                           connVars>>
       ELSE Terminated("died")
  /\ UNCHANGED file
  /\ telemetry' = "none"
  /\ sock' = "none"
  /\ handler' = "none"

\* line 261: write_text raises (disk full, I/O error); the file stays as it is
WriteFails ==
  /\ pc = "write_text"
  /\ IF save_site = "day"
       THEN /\ exc' = TRUE /\ pc' = "finally" /\ save_site' = "none"
            /\ UNCHANGED <<args, interrupted, tracker, remaining, i, dayLocals, counters,
                           netVars, errVars, passGhost, markedUnwritten, was_online, slept, connVars>>
       ELSE Terminated("died")
  /\ UNCHANGED file
  /\ telemetry' = "none"
  /\ sock' = "none"
  /\ handler' = "none"

(* ---------------------------------------------------------------------- *)
(* main(): one-shot summary and daemon loop                                *)
(* ---------------------------------------------------------------------- *)

\* lines 730-745: one-shot mode, summary and return
OneShotDone ==
  /\ pc = "pass_ret" /\ ~args.daemon
  /\ pc' = "done"
  /\ UNCHANGED <<args, interrupted, tracker, file, passLocals, was_online, slept>>
  /\ UNCHANGED connVars
  /\ telemetry' = "none"
  /\ sock' = "none"
  /\ handler' = "none"

\* lines 751 and 786: while not _interrupted
DaemonStop ==
  /\ pc = "daemon_loop" /\ interrupted
  /\ pc' = "stopped"
  /\ UNCHANGED <<args, interrupted, tracker, file, passLocals, was_online, slept>>
  /\ UNCHANGED connVars
  /\ telemetry' = "none"
  /\ sock' = "none"
  /\ handler' = "none"

\* lines 751-760: the probe succeeds; connectivity event, reload of the tracker
ProbeReachable ==
  /\ pc = "daemon_loop" /\ ~interrupted
  /\ IF LoadRaises(file)
       THEN Terminated("died") /\ telemetry' = "none"
       ELSE /\ Probed(TRUE, came_online(was_online))
            /\ pc' = after_telemetry(telemetry', "pass_start")
            /\ tracker' = load(tracker, file)
            /\ was_online' = TRUE /\ slept' = 0
            /\ UNCHANGED <<args, interrupted, passLocals>>
  /\ sock' = probe_socket(TRUE, TRUE) /\ handler' = "none"
  /\ UNCHANGED file

\* lines 751-752 and 773-778: the probe fails
ProbeUnreachable ==
  /\ pc = "daemon_loop" /\ ~interrupted
  /\ was_online' = FALSE /\ slept' = 0
  /\ Probed(FALSE, was_online)
  /\ \E collected \in BOOLEAN : sock' = probe_socket(FALSE, collected)
  /\ handler' = "none"
  /\ pc' = after_telemetry(telemetry', "sleep")
  /\ UNCHANGED <<args, interrupted, tracker, file, passLocals>>

after_pass_no_sleep(lost, n) ==
  IF lost THEN "sleep" ELSE IF n = 0 THEN "stopped" ELSE "daemon_loop"

\* lines 765-772: after a pass the daemon sleeps, or ends when the pass
\* imported no day and did not lose the network
after_pass(lost, n) ==
  IF lost THEN "sleep" ELSE IF n = 0 THEN "stopped" ELSE "sleep"

\* lines 760-772: the daemon's handling of the pass result
DaemonAfterPass ==
  /\ pc = "pass_ret" /\ args.daemon
  /\ pc' = IF interrupted THEN "stopped" ELSE after_pass(phone_lost, days_imported)
  /\ was_online' = IF ~interrupted /\ phone_lost THEN FALSE ELSE was_online
  /\ slept' = 0
  /\ UNCHANGED <<args, interrupted, tracker, file, passLocals>>
  /\ UNCHANGED connVars
  /\ telemetry' = "none"
  /\ sock' = "none"
  /\ handler' = "none"

sleep_interrupted_never == FALSE

\* line 782: if _interrupted: break
sleep_interrupted == interrupted

\* lines 781-784: one more second of the poll sleep
SleepTick ==
  /\ pc = "sleep"
  /\ slept < PollInterval /\ ~sleep_interrupted
  /\ slept' = slept + 1
  /\ UNCHANGED <<args, pc, interrupted, tracker, file, passLocals, was_online>>
  /\ UNCHANGED connVars
  /\ telemetry' = "none"
  /\ sock' = "none"
  /\ handler' = "none"

\* lines 780-784: the poll sleep ends, after poll_interval seconds or when
\* the stop flag is seen
Sleep ==
  /\ pc = "sleep"
  /\ (slept >= PollInterval \/ sleep_interrupted)
  /\ pc' = "daemon_loop"
  /\ slept' = IF sleep_interrupted THEN slept ELSE 0
  /\ UNCHANGED <<args, interrupted, tracker, file, passLocals, was_online>>
  /\ UNCHANGED connVars
  /\ telemetry' = "none"
  /\ sock' = "none"
  /\ handler' = "none"

\* line 759 reloads the tracker "in case of external edits": the progress
\* file is removed by someone else while the daemon sleeps
ExternalDelete ==
  /\ pc = "sleep" /\ file.kind = "full"
  /\ file' = NoFile
  /\ UNCHANGED <<args, pc, interrupted, tracker, passLocals, was_online, slept>>
  /\ UNCHANGED connVars
  /\ telemetry' = "none"
  /\ sock' = "none"
  /\ handler' = "none"

\* handle_interrupt, lines 718-721: SIGINT sets the stop flag at any moment
handle_interrupt ==
  /\ Alive /\ ~interrupted
  /\ interrupted' = TRUE
  /\ UNCHANGED <<args, pc, tracker, file, passLocals, was_online, slept>>
  /\ UNCHANGED connVars
  /\ telemetry' = "none"
  /\ sock' = "none"
  /\ handler' = "none"

\* the process is killed or the machine stops, at any moment
Crash ==
  /\ Alive
  /\ Terminated("crashed")
  /\ UNCHANGED file
  /\ telemetry' = "none"
  /\ sock' = "none"
  /\ handler' = "none"

Next ==
  \/ MainStart
  \/ PassStart \/ DaysDone \/ DayStart
  \/ WindowsDone \/ QueryWindow \/ SinkWrite \/ SinkWriteFails
  \/ MarkDay \/ SaveAfterDay \/ Finally
  \/ WritePartial \/ WriteComplete \/ WriteFails
  \/ OneShotDone
  \/ DaemonStop \/ ProbeReachable \/ ProbeUnreachable \/ DaemonAfterPass
  \/ SleepTick \/ Sleep
  \/ handle_interrupt
  \/ ExternalDelete
  \/ Crash

Spec == Init /\ [][Next]_vars

\* the process is a single thread that keeps running: some step is always taken
LiveSpec == Spec /\ WF_vars(Next)

TypeOK ==
  /\ pc \in {"main", "pass_start", "day_loop", "window", "write", "mark", "save_day",
             "finally", "write_text", "pass_ret", "daemon_loop", "sleep",
             "done", "stopped", "died", "crashed"}
  /\ tracker.completed \subseteq Days
  /\ file.kind \in {"absent", "full", "empty", "partial"}
  /\ sock \in {"none", "closed", "unclosed"}
  /\ handler \in {"none", "network", "general"}

(* ====================================================================== *)
(* Properties                                                              *)
(* ====================================================================== *)

AllDays == Range(all_days)                      \* the days of the import range
FileCompleted == Range(file.completed_days)     \* the completed days the file holds

\* C1: a day enters the completed set only after all four of its windows have
\* been attempted in that pass without an error, also when the stop flag is
\* set while the day is in progress.
C1_MarkedAfterAllWindows ==
  [][\A d \in Days :
       (d \notin tracker.completed /\ d \in tracker.completed' /\ pc = "mark")
         => w = NumWindows + 1]_vars

\* a day whose latest attempt raised an error is in no completed set, and its
\* backfill_error event was emitted unless dry-run is on
C2_ErrorDayStaysOpen ==
  /\ errDays \cap tracker.completed = {}
  /\ errDays \cap FileCompleted = {}
  /\ errEvents = IF args.dry_run THEN {} ELSE errDays

\* a pass that starts selects every such day
C2_ErrorDaySelectedAgain ==
  (pc = "pass_start" /\ pc' \in {"day_loop", "pass_ret"}) => errDays \subseteq Range(remaining')

\* C2: a day during which a window raises an error (transport, protocol or
\* sink write) is not added to the completed set by that attempt, a
\* backfill_error event is emitted for it when dry-run is off, and the next
\* pass over the range selects the day again.
C2_ErrorDayRetried == []C2_ErrorDayStaysOpen /\ [][C2_ErrorDaySelectedAgain]_vars

\* C2 witness: with dry-run off, a pass is about to attempt again a day whose
\* previous attempt, in an earlier pass, ended in an error.
C2_Witness ==
  /\ ~args.dry_run /\ pc = "day_loop" /\ i <= Len(remaining)
  /\ remaining[i] \in errDays /\ remaining[i] \in errEvents

\* C3: for every date in the completed set, in memory or in the file, every
\* non-empty batch obtained for its windows has been written to the sink.
C3_CompletedWereWritten ==
  (tracker.completed \cup FileCompleted) \cap markedUnwritten = {}

\* C4: the pass has network_lost = true exactly when three window queries in
\* a row failed after their retries with no successful window between them.
C4_LostIffThreeQueryFailures ==
  (InPass \/ pc = "pass_ret") => (phone_lost <=> transportRun >= NetFailLimit)

C5_CountedState ==
  /\ InPass => consecutive_net_failures <= Len(queried)
  /\ (InPass /\ phone_lost) => Len(queried) >= NetFailLimit
  /\ (args.end = args.start /\ tripleSeen)
       => (~phone_lost /\ days_imported = 0 /\ args.start \notin tracker.completed)

\* a window query that failed on all its attempts ends the day
C5_CountedStep ==
  (pc = "window" /\ transportRun' = transportRun + 1)
    => /\ consecutive_net_failures' = consecutive_net_failures + 1
       /\ remaining[i] \notin tracker.completed'
       /\ pc' \in {"save_day", "finally"}

C6_StopsOnlyWhenComplete ==
  (args.daemon /\ pc = "stopped" /\ ~interrupted) => AllDays \subseteq tracker.completed

\* the step that starts a pass over a fully completed range
C7_CompletedRangeStep ==
  (pc = "pass_start" /\ AllDays \subseteq tracker.completed /\ pc' \notin {"pass_start", "crashed"})
    => /\ pc' = "pass_ret"
       /\ days_imported' = 0 /\ total_points' = 0 /\ ~phone_lost'
       /\ ~passIO'
       /\ tracker' = tracker /\ file' = file

\* C7: a pass over a range whose days are all completed returns at once with
\* zero days and points, without a device query, a sink write or a file
\* write, and leaves the tracker and the file as they were.
C7_CompletedRangeIsNoOp ==
  [](InPass => ~(AllDays \subseteq startCompleted)) /\ [][C7_CompletedRangeStep]_vars

\* C7 witness: a pass over a fully completed range has returned.
C7_Witness ==
  /\ pc = "pass_ret" /\ AllDays \subseteq tracker.completed
  /\ ~passIO /\ days_imported = 0 /\ file.kind = "full"

\* C8: a pass queries and writes only days that were not completed when it
\* started, and visits them in strictly descending date order.
C8_OnlyRemainingNewestFirst ==
  InPass =>
    /\ Range(queried) \cap startCompleted = {}
    /\ Range(queried) \subseteq AllDays
    /\ \A a, b \in 1..Len(queried) : a < b => queried[a] > queried[b]
    /\ pc \in {"window", "write", "mark"} => remaining[i] \notin startCompleted
    /\ pc = "write" => remaining[i] = queried[Len(queried)]

\* C8 witness: a pass that started with a completed day has queried two others.
C8_Witness == InPass /\ Len(queried) = 2 /\ startCompleted # {}

\* C9: the progress file on stable storage is always a complete document (or
\* absent), never empty or partially written.
C9_FileAlwaysComplete == file.kind \in {"absent", "full"}

\* C10: at most one day is in the in-memory completed set and missing from
\* the file, and when the pass returns the file's completed set equals the
\* in-memory one.
C10_AtMostOneDayUnsaved ==
  /\ Cardinality(tracker.completed \ FileCompleted) <= 1
  /\ pc = "pass_ret" => FileCompleted = tracker.completed

\* the same, looking only at moments when no save is in progress
C10_BetweenSaves == C9_FileAlwaysComplete => C10_AtMostOneDayUnsaved

\* a save that completes leaves a file from which load, on the same tracker or
\* on a fresh one, gives the completed set and total_points the tracker had
C11_SaveThenLoad ==
  (pc = "write_text" /\ file'.kind = "full")
    => /\ ~LoadRaises(file')
       /\ load(NewTracker, file').completed = tracker.completed
       /\ load(NewTracker, file').total_points = tracker.total_points
       /\ load(tracker, file').completed = tracker.completed
       /\ load(tracker, file').total_points = tracker.total_points

\* C11: for every progress state reached by mark_completed calls, save()
\* followed by load(), on the same or a fresh tracker, yields the completed
\* set and the total_points the tracker had before the save.
C11_RoundTrip == [][C11_SaveThenLoad]_vars

\* C11 witness: a tracker with two completed days and a positive point total
\* has been saved and the file loads back to it.
C11_Witness ==
  /\ pc = "day_loop" /\ ~tracker.dirty /\ file.kind = "full"
  /\ Cardinality(tracker.completed) >= 2 /\ tracker.total_points > 0
  /\ days_imported > 0
  /\ load(NewTracker, file).completed = tracker.completed
  /\ load(NewTracker, file).total_points = tracker.total_points

\* C12: in daemon mode with dry-run off, a backfill_connectivity event is
\* emitted exactly once for each change of the device's reachability as the
\* daemon sees it (online=1 when it becomes reachable, online=0 when a probe
\* fails or a pass reports the network lost) and never without a change; the
\* probes false, false, true, true, false, with no pass losing the network in
\* between, give exactly two events.
C12_OneEventPerTransition ==
  (args.daemon /\ ~args.dry_run) =>
    /\ ~connLog.repeat
    /\ pc \in {"daemon_loop", "sleep"} => connLog.last = was_online
    /\ pc = "pass_start" => (was_online /\ connLog.last)
    /\ (InPass \/ pc = "pass_ret") => (was_online /\ (connLog.last <=> ~phone_lost))
    /\ scen = Len(ScenProbes) => connEvents = 2

\* C12 witness: the daemon, dry-run off, has made the five probes of the
\* scenario and two events were emitted.
C12_Witness ==
  /\ args.daemon /\ ~args.dry_run /\ pc = "sleep"
  /\ scen = Len(ScenProbes) /\ connEvents = 2 /\ ~connLog.last

\* with the stop flag set, a pass starts no day and no window query, and when
\* it returns nothing is left to save
C13_StopStep ==
  (interrupted /\ InPass) =>
    /\ ~(pc = "day_loop" /\ pc' = "window")
    /\ pc = "window" => pc' \in {"mark", "crashed"}
    /\ Len(queried') <= Len(queried)
    /\ pc = "write" => pc' \in {"window", "save_day", "finally", "crashed"}
    /\ pc' = "pass_ret" => (~tracker'.dirty /\ (tracker.dirty => file' = Document(tracker')))

\* C13: once the stop flag is set (asynchronously, by the signal handler),
\* import_pass starts no new day and no new window query, the sink write of
\* the window in flight completes, dirty progress is saved, and the pass ends
\* (by returning, unless a save fails or the process is killed).
C13_StopsCooperatively ==
  [][C13_StopStep]_vars /\ ((interrupted /\ InPass) ~> ~InPass)

\* C13 witness: the flag was set during a pass that had imported a day with
\* points; the pass has returned with the progress saved and days remaining.
C13_Witness ==
  /\ pc = "pass_ret" /\ interrupted /\ ~args.dry_run
  /\ days_imported = 1 /\ total_points > 0
  /\ ~tracker.dirty /\ file = Document(tracker)
  /\ ~(AllDays \subseteq tracker.completed)

\* a save that fails raises, and while the exception propagates the pass only
\* runs its finally clause and the process ends
C14_FailedSaveStep ==
  /\ (pc \in {"save_day", "finally"} /\ tracker.dirty /\ pc' \notin {pc, "write_text"})
       => (exc' \/ pc' \in {"died", "crashed"})
  /\ (pc = "write_text" /\ pc' # "write_text" /\ file'.kind # "full")
       => (exc' \/ pc' \in {"died", "crashed"})
  /\ exc => /\ pc' \in {"finally", "write_text", "died", "crashed"}
            /\ Len(queried') <= Len(queried)

\* C14: if writing the progress file fails, the failure propagates out of
\* import_pass and out of main (one-shot or daemon): no further day is
\* queried and no further pass is started.
C14_FailedSaveStopsRun ==
  [](exc => (pc \in {"finally", "write_text"} /\ (pc = "write_text" => save_site = "finally")))
  /\ [][C14_FailedSaveStep]_vars

\* C14 witness: the save after a day failed with the file cut off, days are
\* left, and the exception is on its way out.
C14_Witness ==
  /\ exc /\ pc = "finally" /\ file.kind = "partial"
  /\ i < Len(remaining) /\ tracker.dirty

\* the attempt of a window query that received the response: the first one
\* that did not end in a transport error
Answered(outs, a) ==
  /\ a \in 1..Retries /\ outs[a].kind # "transport"
  /\ \A b \in 1..(a - 1) : outs[b].kind = "transport"

\* a window query answered by an error envelope
C15_EnvelopeStep ==
  \A outs \in AttemptSeqs : \A a \in 1..Retries :
    (Answered(outs, a) /\ outs[a].kind = "error" /\ QueryWindowWith(outs))
      => /\ query_with_retry(outs).attempts = a
         /\ query_with_retry(outs).outcome.kind = "error"
         /\ consecutive_net_failures' = consecutive_net_failures
         /\ phone_lost' = phone_lost /\ transportRun' = transportRun
         /\ remaining[i] \in errDays' /\ remaining[i] \notin tracker'.completed
         /\ pc' = "save_day" /\ ~exc' /\ days_imported' = days_imported

\* after a day that ended in an error (nothing to save) comes the next day
C15_NextDayStep ==
  (pc = "save_day" /\ ~tracker.dirty /\ pc' \notin {"save_day", "crashed"})
    => (pc' = "day_loop" /\ i' = i + 1 /\ remaining' = remaining)

\* C15: a well-formed error envelope is not retried (the attempt that
\* received it is the last of that window's query), does not increment the
\* network-failure counter and does not lead to network_lost; the day is
\* recorded as an error, left out of completed, and the pass goes on to the
\* next day.
C15_EnvelopeIsDayError == [][C15_EnvelopeStep /\ C15_NextDayStep]_vars

\* C15 witness: the first remaining day failed on a transport error; the
\* second day's first window was answered by an error response: the day is
\* an error day, the counter is still 1, and the pass goes on.
C15_Witness ==
  /\ pc = "save_day" /\ i = 2 /\ w = 1 /\ ~dayUnwritten
  /\ remaining[i] \in errDays /\ remaining[i] \notin tracker.completed
  /\ consecutive_net_failures = 1 /\ ~phone_lost

\* C16: a malformed (unparseable) response to a window query counts as an
\* empty result: zero points, no day-level error, the next window of the day
\* is queried and the day can still be completed in this pass.
C16_MalformedIsEmpty ==
  [][\A outs \in AttemptSeqs : \A a \in 1..Retries :
       (Answered(outs, a) /\ outs[a].kind = "undecodable" /\ QueryWindowWith(outs))
         => /\ remaining[i] \notin errDays'
            /\ day_points' = day_points
            /\ pc' = "window" /\ w' = w + 1]_vars

\* C17: a failed sink data write, whatever its error type, makes the day an
\* error day that is not completed, leaves the network-failure counter as it
\* was and does not make the pass report network_lost.
C17_SinkFailureNotNetwork ==
  [][(pc = "write" /\ pc' \in {"save_day", "finally"})
       => /\ remaining[i] \in errDays' /\ remaining[i] \notin tracker'.completed
          /\ consecutive_net_failures' = consecutive_net_failures
          /\ phone_lost' = phone_lost]_vars

\* a step whose telemetry write failed has the effect the code gives it when
\* the write succeeds: nothing propagates, the day that was marked stays
\* marked and is no error day, the handlers go on as they do, the daemon
\* goes on to its pass or to its sleep
C18_FailedTelemetryStep ==
  telemetry' = "failed" =>
    /\ pc' # "died" /\ exc' = exc
    /\ pc = "mark" =>
         /\ pc' = "save_day" /\ errDays' = errDays
         /\ tracker' = mark_completed(tracker, remaining[i], day_points)
         /\ days_imported' = days_imported + 1
         /\ total_points' = total_points + day_points
    /\ pc \in {"window", "write"} =>
         /\ pc' = IF phone_lost' THEN "finally" ELSE "save_day"
         /\ phone_lost' = (consecutive_net_failures' >= NetFailLimit)
         /\ remaining[i] \in errDays' /\ tracker' = tracker
    /\ pc = "daemon_loop" =>
         \/ pc' = "pass_start" /\ was_online' /\ tracker' = load(tracker, file)
         \/ pc' = "sleep" /\ ~was_online' /\ tracker' = tracker

\* C18: whatever telemetry writes fail (backfill_day, backfill_progress,
\* backfill_connectivity, backfill_error), the queries, data writes, progress
\* mutations, the pass's result and the daemon's transitions are those of a
\* run whose telemetry writes succeed; a telemetry failure never propagates.
C18_TelemetryNeverInterferes ==
  [](telemetry \in {"none", "written", "failed"}) /\ [][C18_FailedTelemetryStep]_vars

\* C18 witness: the telemetry write for a day just marked failed; the day is
\* completed, no error day, and about to be saved.
C18_Witness ==
  /\ telemetry = "failed" /\ pc = "save_day" /\ ~exc
  /\ remaining[i] \in tracker.completed /\ remaining[i] \notin errDays
  /\ tracker.dirty /\ days_imported > 0

\* in a dry run every window of a day is queried: the query is possible at
\* each window, and a day is marked after its last window unless the stop
\* flag is set
C19_StillQueried ==
  /\ (pc = "window" /\ w <= NumWindows /\ ~interrupted) => ENABLED QueryWindow
  /\ (pc = "mark" /\ ~interrupted) => w = NumWindows + 1

\* C19: in a dry run no data points are written to the sink and no telemetry
\* event of any kind is emitted, in any pass or daemon iteration, while the
\* windows of the remaining days are still queried.
C19_DryRunWritesNothing ==
  args.dry_run =>
    /\ pc # "write"
    /\ telemetry = "none"
    /\ errEvents = {} /\ connLog = NoEvents /\ connEvents = 0
    /\ C19_StillQueried

\* C19 witness: a dry run has queried the four windows of a day and obtained
\* points; a day failed before it without an event.
C19_Witness ==
  /\ args.dry_run /\ pc = "mark" /\ w = NumWindows + 1 /\ day_points > 0
  /\ errDays # {} /\ errEvents = {} /\ telemetry = "none"

\* what query_with_retry does with retry count n on the attempts' outcomes
C20_Retry(outs, n) ==
  LET r == retry_loop(outs, n, 0)
      answered == {a \in 1..n : Answered(outs, a)}
  IN /\ r.attempts \in 1..n
     /\ r.sleeps = r.attempts - 1
     /\ \A a \in answered : r.attempts = a /\ r.outcome = outs[a]
     /\ answered = {} => (r.attempts = n /\ r.outcome.kind = "transport")
     /\ r.outcome.kind = "transport" => \A a \in 1..n : outs[a].kind = "transport"

\* C20: with retry count n >= 1, query_with_retry makes at most n connection
\* attempts, sleeps the delay between consecutive attempts and not after the
\* last, returns the first response received without further attempts, and
\* raises the transport error only after all n attempts failed.
C20_RetryContract ==
  [][\A outs \in AttemptSeqs :
       QueryWindowWith(outs)
         => /\ \A n \in 1..Retries : C20_Retry(outs, n)
            /\ query_with_retry(outs) = retry_loop(outs, Retries, 0)
            /\ (query_with_retry(outs).outcome.kind = "transport")
                 = (transportRun' = transportRun + 1)]_vars

\* C20 witness: a window query failed on all its attempts and the transport
\* error reached import_pass.
C20_Witness ==
  /\ pc = "save_day" /\ tripleSeen /\ transportRun = 1
  /\ consecutive_net_failures = 1 /\ remaining[i] \in errDays

\* C21: reset(), whatever the tracker went through before it, leaves no
\* state: an empty completed set, an empty points_by_day, total_points 0, and
\* a save that follows persists nothing of what was there before the reset.
C21_ResetDiscardsAll ==
  LET t == reset(tracker) IN
    /\ t.completed = {}
    /\ t.points_by_day = NoPoints
    /\ t.total_points = 0
    /\ Document(t) = Document(NewTracker)

\* C22: mark_completed(day, points) adds the day to the completed set, makes
\* points the day's recorded count, adds points to total_points and marks the
\* tracker dirty, also when the day is already completed (the count is
\* replaced by the new value and the new value is added to the total again).
C22_MarkCompletedContract ==
  \A d \in Days : \A p \in 0..MaxPts :
    LET t == mark_completed(tracker, d, p) IN
      /\ t.completed = tracker.completed \cup {d}
      /\ t.points_by_day[d] = p
      /\ t.total_points = tracker.total_points + p
      /\ t.dirty

\* the steps that call load (main at startup, the daemon before a pass) when
\* there is no progress file
C23_AbsentFileStep ==
  (/\ file'.kind = "absent"
   /\ \/ pc = "main" /\ pc' \in {"daemon_loop", "pass_start", "died"}
      \/ pc = "daemon_loop" /\ pc' \in {"pass_start", "died"})
    => /\ pc' # "died"
       /\ tracker'.completed = {} /\ tracker'.total_points = 0

\* C23: load() with no progress file raises nothing and leaves the tracker
\* empty (no completed day, total_points 0), at startup and as the reload
\* before a daemon pass.
C23_AbsentFileLoadsEmpty == [][C23_AbsentFileStep]_vars

\* C24: in daemon mode, once every day of the range is in the completed set,
\* the daemon eventually ends by itself, with no stop signal needed.
C24_CompleteRangeEndsDaemon ==
  (args.daemon /\ Alive /\ pc # "main" /\ AllDays \subseteq tracker.completed)
    ~> (pc \in {"stopped", "died", "crashed"})

\* with the stop flag set the daemon makes no probe, starts no pass and
\* sleeps no further second
C25_StopStep ==
  (args.daemon /\ interrupted) =>
    /\ pc \in {"daemon_loop", "pass_ret"} => pc' \in {"stopped", "crashed"}
    /\ pc # "pass_start" => pc' # "pass_start"
    /\ pc = "sleep" => /\ pc' \in {"sleep", "daemon_loop", "crashed"}
                       /\ pc' # "crashed" => slept' = slept

\* C25: after the stop flag is set the daemon, once it has seen the flag,
\* makes no new reachability probe and starts no new pass, ends its poll
\* sleep without sleeping a further second, and eventually stops (or the
\* process ends on a failed save or a kill).
C25_DaemonStops ==
  /\ [][C25_StopStep]_vars
  /\ (args.daemon /\ interrupted /\ Alive) ~> (pc \in {"stopped", "died", "crashed"})

\* C25 witness: the flag was set during a poll sleep, one second into it; the
\* sleep ended there and the daemon stopped.
C25_Witness ==
  /\ args.daemon /\ interrupted /\ pc = "stopped"
  /\ slept = 1 /\ slept < PollInterval

\* the daemon's steps around a pass
C27_PassStep ==
  args.daemon =>
    /\ (pc # "pass_start" /\ pc' = "pass_start")
         => /\ pc = "daemon_loop" /\ ~interrupted
            /\ was_online' /\ tracker' = load(tracker, file) /\ ~LoadRaises(file)
    /\ (pc = "pass_ret" /\ ~interrupted /\ (phone_lost \/ days_imported > 0))
         => /\ pc' \in {"pass_ret", "sleep", "crashed"}
            /\ pc' = "sleep" => slept' = 0
    /\ (pc = "sleep" /\ pc' = "daemon_loop") => (interrupted \/ slept = PollInterval)
    /\ pc = "sleep" => pc' \in {"sleep", "daemon_loop", "crashed"}

\* C27: in daemon mode a pass starts only from a reachability probe that
\* succeeded, with the tracker reloaded from the file; after a pass that lost
\* the network or imported a day the daemon sleeps the whole poll interval
\* (unless the stop flag is set) and probes again before any other pass.
C27_ProbeBeforeEveryPass == [][C27_PassStep]_vars

\* C27 witness: a pass imported a day, the daemon slept the poll interval,
\* probed again, reloaded and is about to start the next pass.
C27_Witness ==
  /\ args.daemon /\ pc = "pass_start" /\ ~interrupted /\ was_online
  /\ days_imported > 0 /\ ~phone_lost
  /\ tracker.completed # {} /\ tracker.completed = FileCompleted

\* C26: the third component of import_pass's result, reported by the one-shot
\* summary as "Failed", is the number of days that were attempted in the pass
\* and not marked completed because of an error.
C26_FailedCountsFailedDays ==
  [][(InPass /\ pc' = "pass_ret")
       => days_failed' = Cardinality(errDays' \cap Range(queried))]_vars

\* a window query: no batch of an earlier window is waiting; a response with
\* points leads to the sink write of that window, one without to the next
\* window at once
C28_QueryStep ==
  \A outs \in AttemptSeqs :
    QueryWindowWith(outs) =>
      LET o == query_with_retry(outs).outcome
          n == build_points(o)
      IN /\ w \in 1..NumWindows /\ points = 0
         /\ w = 1 \/ remaining[i] \in Range(queried)
         /\ (o.kind \in {"metrics", "unrecognized"} /\ n > 0 /\ ~args.dry_run)
              => (pc' = "write" /\ points' = n /\ w' = w /\ day_points' = day_points)
         /\ (o.kind \in {"metrics", "unrecognized"} /\ n = 0)
              => (pc' = "window" /\ w' = w + 1 /\ day_points' = day_points)

\* the sink write of a window's batch comes before anything else of the day
C28_WriteStep ==
  /\ pc = "write" => /\ pc' \in {"write", "window", "save_day", "finally", "crashed"}
                     /\ pc' = "window" => (w' = w + 1 /\ day_points' = day_points + points)
  /\ (pc = "day_loop" /\ pc' = "window") => w' = 1
  /\ (pc = "window" /\ pc' = "window") => w' \in {w, w + 1}

\* C28: with dry-run off the points of a window are written to the sink
\* before the next window is queried, a window without points causes no sink
\* write, and the windows of a day are queried in the order 00:00-05:59:59,
\* 06:00-11:59:59, 12:00-17:59:59, 18:00-23:59:59.
C28_PerWindowWrites ==
  /\ [](pc = "write" => (points > 0 /\ ~args.dry_run /\ w \in 1..NumWindows))
  /\ [](/\ Len(windows) = NumWindows
        /\ \A k \in 1..NumWindows : windows[k] = <<6 * (k - 1), 0, 0, 6 * k - 1, 59, 59>>)
  /\ [][C28_QueryStep /\ C28_WriteStep]_vars

\* C28 witness: window 1 gave a point that was written; the answer to window
\* 2 is waiting for its sink write.
C28_Witness ==
  /\ ~args.dry_run /\ pc = "write" /\ w = 2 /\ day_points = 1 /\ points = 1

\* an attempt at a day, also of a day that failed before after some of its
\* windows were written, starts at the first window with nothing carried
\* over, and its windows' points are written again
C29_RetryStep ==
  /\ (pc = "day_loop" /\ pc' = "window")
       => (w' = 1 /\ day_points' = 0 /\ points' = 0 /\ remaining[i] \notin errDays')
  /\ \A outs \in AttemptSeqs :
       (/\ pc = "window" /\ remaining[i] \in errWrote /\ ~args.dry_run
        /\ build_points(query_with_retry(outs).outcome) > 0
        /\ QueryWindowWith(outs))
         => (pc' = "write" /\ points' = build_points(query_with_retry(outs).outcome))
  /\ \A d \in Days :
       (InPass /\ d \notin tracker.completed /\ d \in tracker'.completed)
         => (pc = "mark" /\ d = remaining[i] /\ d \notin errDays /\ d \notin errDays')

\* C29: window results are not remembered across attempts: the retry, in a
\* later pass, of a day that failed at window k queries the day from its first
\* window and writes the points of the windows before k again; the day enters
\* the completed set only in an attempt that raised no day-level error.
C29_RetriedInFull ==
  /\ [](errDays \cap tracker.completed = {} /\ errWrote \cap tracker.completed = {})
  /\ [](pc \in {"window", "write", "mark"} => remaining[i] \notin errDays)
  /\ [][C29_RetryStep]_vars

\* C29 witness: a day failed after the points of its first window were
\* written; a later pass retries it and is writing its first window again.
C29_Witness ==
  /\ ~args.dry_run /\ pc = "write" /\ w = 1 /\ points > 0
  /\ remaining[i] \in errWrote /\ remaining[i] \notin tracker.completed

\* a window answered with no records is followed by the next window, with no
\* sink write; a day whose four windows gave nothing is marked completed
C30_EmptyDayStep ==
  /\ \A outs \in AttemptSeqs :
       (query_with_retry(outs).outcome = [kind |-> "metrics", n |-> 0] /\ QueryWindowWith(outs))
         => (pc' = "window" /\ w' = w + 1 /\ day_points' = day_points /\ points' = 0)
  /\ (pc = "mark" /\ pc' = "save_day" /\ w = NumWindows + 1 /\ day_points = 0)
       => /\ remaining[i] \in tracker'.completed /\ tracker'.dirty
          /\ tracker'.total_points = tracker.total_points
          /\ days_imported' = days_imported + 1 /\ total_points' = total_points

\* the pass of the scenario has returned: dry-run off, a range of two days,
\* nothing was completed before the pass (the days it imported are all the
\* completed days), no day ended in an error, no window gave a point, no stop
\* signal came
C30_ScenarioReturned ==
  /\ pc = "pass_ret" /\ ~args.dry_run /\ args.end - args.start + 1 = 2
  /\ days_imported = Cardinality(tracker.completed)
  /\ errDays = {} /\ total_points = 0 /\ ~interrupted

\* C30: a day whose four windows all return zero records is marked completed
\* with no sink write for it; over a range of two days with an empty store,
\* a device that returns no records and dry-run off, the pass imports 2 days
\* and 0 points and both days are in the saved completed set.
C30_EmptyDaysComplete ==
  /\ [](C30_ScenarioReturned
          => /\ days_imported = 2 /\ tracker.completed = AllDays
             /\ file.kind = "full" /\ FileCompleted = AllDays /\ file.total_points = 0)
  /\ [][C30_EmptyDayStep]_vars

\* C30 witness: the pass of the scenario has returned with both days imported
\* and saved, and no points.
C30_Witness ==
  /\ C30_ScenarioReturned
  /\ days_imported = 2 /\ FileCompleted = {1, 2} /\ tracker.total_points = 0

\* the file is written (first truncated, line 261) only by a save that found
\* the tracker dirty; the tracker gets dirty only by mark_completed; while a
\* pass has marked no day the file stays as it is.  The document's
\* last_updated is written by save only, with the rest of the text.
C31_SaveStep ==
  /\ (file' # file /\ pc # "sleep" /\ pc # "main")
       => (pc \in {"save_day", "finally", "write_text"} /\ tracker.dirty)
  /\ (tracker'.dirty /\ ~tracker.dirty) => pc = "mark"
  /\ (InPass /\ days_imported = 0) => (file' = file /\ pc' # "write_text")

\* C31: save_if_dirty() writes the progress file only if mark_completed was
\* called since the last save, so a pass that marks no day leaves the file,
\* its last_updated included, as it was.
C31_SavedOnlyWhenDirty ==
  /\ [](pc = "write_text" => (tracker.dirty /\ days_imported > 0))
  /\ [](pc \in {"pass_start", "daemon_loop", "sleep", "pass_ret"} => ~tracker.dirty)
  /\ [][C31_SaveStep]_vars

\* C31 witness: a pass queried the device, every day it attempted failed, and
\* it has returned with the file as it was.
C31_Witness ==
  /\ pc = "pass_ret" /\ days_imported = 0 /\ passIO /\ errDays # {}
  /\ file.kind = "full" /\ ~tracker.dirty /\ FileCompleted = tracker.completed

\* C32: every connection to the device is closed by the time the query or
\* probe that opened it returns, on the success path and on every failure path.
C32_EveryConnectionClosed == sock # "unclosed"

\* the counter rises by one at a time, and only when a window query that
\* failed after its retries ends the day
C33_CounterStep ==
  consecutive_net_failures' > consecutive_net_failures
    => /\ consecutive_net_failures' = consecutive_net_failures + 1
       /\ pc = "window" /\ transportRun' = transportRun + 1
       /\ pc' \in {"save_day", "finally"}

\* C33: within a pass the consecutive-failure counter starts at 0 and rises by
\* at most one per day, each time because a transport error ended the day, so
\* network_lost = true takes three days of the pass that ended with a
\* transport error.
C33_LostTakesThreeTransportDays ==
  /\ [](pc = "day_loop" /\ queried = <<>> => consecutive_net_failures = 0)
  /\ [](InPass => consecutive_net_failures <= Len(queried))
  /\ [](phone_lost => consecutive_net_failures >= NetFailLimit)
  /\ [][C33_CounterStep]_vars

\* a first window answered by an error envelope or by an undecodable response
\* ends the day in the general handler, the counter and the flag as they were
C34_ErrorDayStep ==
  /\ \A outs \in AttemptSeqs :
       (/\ pc = "window" /\ w = 1
        /\ query_with_retry(outs).outcome.kind \in {"error", "undecodable"}
        /\ QueryWindowWith(outs))
         => /\ handler' = "general" /\ pc' = "save_day"
            /\ consecutive_net_failures' = consecutive_net_failures
            /\ phone_lost' = phone_lost
            /\ transportRun' = transportRun
            /\ remaining[i] \in errDays' /\ remaining[i] \notin tracker'.completed
  /\ handler' = "general"
       => (consecutive_net_failures' = consecutive_net_failures /\ phone_lost' = phone_lost)

\* C34: a day that fails with a non-transport error (error envelope,
\* undecodable response) before any of its windows succeeded neither
\* increments nor resets the consecutive-failure counter, so transport
\* failures on days separated only by such days still add up to the threshold.
C34_ErrorDayKeepsCounter ==
  /\ [](InPass => consecutive_net_failures >= transportRun)
  /\ [](transportRun >= NetFailLimit => phone_lost)
  /\ [][C34_ErrorDayStep]_vars

\* C34 witness: the first day's query failed in transport, the second day's
\* first window has just been answered by an error and the general handler
\* ran: the counter still holds the first day's failure.
C34_Witness ==
  /\ pc = "save_day" /\ handler = "general" /\ sock = "closed"
  /\ i = 2 /\ w = 1 /\ day_points = 0 /\ Len(queried) = 2
  /\ consecutive_net_failures = 1 /\ transportRun = 1 /\ ~phone_lost
  /\ remaining[1] \in errDays /\ remaining[2] \in errDays

====
